---- MODULE Spec2Model ----
(***************************************************************************)
(* Cart-pole playground: dynamics, RK4 integrator, wall constraint,        *)
(* PID controller, metrics tracker and the main simulation loop.           *)
(*                                                                         *)
(* Number representation.  The program computes in IEEE doubles; the model *)
(* computes in fixed point on integer grids:                               *)
(*   - positions, velocities, angles, angular velocities, accelerations,   *)
(*     forces and the controller integral are counted in 1e-6 of their SI  *)
(*     unit (um, um/s, urad, urad/s, uN, ...), so that the wall tolerance  *)
(*     eps = 1e-6 m of constraint_flag is exactly one grid step;           *)
(*   - the parameters of params.py are counted in 1e-3 of their SI unit;   *)
(*   - sin and cos results are counted in 1e-3;                            *)
(*   - time is counted in ticks of P.dt = 1/240 s.                         *)
(* Sums, differences, comparisons, max, min, abs and products by integer   *)
(* gains are exact.  Products of two reals and quotients are rounded to    *)
(* the grid (RDiv, DivMilli), as a double rounds to its grid.              *)
(***************************************************************************)
EXTENDS Integers, Sequences, FiniteSets, TLC

(* ------------------------------------------------------------------ *)
(* Fixed-point helpers                                                 *)
(* ------------------------------------------------------------------ *)
Abs(a) == IF a < 0 THEN -a ELSE a

Max(a, b) == IF a >= b THEN a ELSE b

Min(a, b) == IF a <= b THEN a ELSE b

\* a / b rounded to the nearest integer (b > 0)
RDiv(a, b) == (a + (b \div 2)) \div b

\* a value on the 1e-6 grid, rounded to the 1e-3 grid
ToMilli(a) == RDiv(a, 1000)

\* a / k for a on the 1e-6 grid and k on the 1e-3 grid; result on the 1e-6 grid
DivMilli(a, k) == (a \div k) * 1000 + RDiv((a % k) * 1000, k)

\* a * k for k on the 1e-3 grid; result on the grid of a
MulMilli(a, k) == (a \div 1000) * k + RDiv((a % 1000) * k, 1000)

(* ------------------------------------------------------------------ *)
(* params.py  (1e-3 SI units unless noted)                            *)
(* ------------------------------------------------------------------ *)
M == 1000

m == 200

l == 500

g == 9810

cart_damping == 50

pole_damping == 20

\* uN
max_force == 50000000

\* uN
max_mouse_force == 50000000

\* P.dt = 1/Hz seconds = one tick
Hz == 240

\* P.dt in ticks
dt == 1

substeps == 2

pixels_per_meter == 170

cart_width_m == 550

history_len == 900

\* um
settle_x_thresh == 50000

\* math.pi in urad
PI == 3141593

\* math.radians(3.0) in urad
settle_theta_thresh == RDiv(3 * PI, 180)

\* 1.0 s in ticks
settle_hold_time == 1 * Hz

(* ------------------------------------------------------------------ *)
(* utils.py                                                           *)
(* ------------------------------------------------------------------ *)
\* Python's % takes the sign of the divisor, as TLA+'s % does.
wrap_angle(theta) == ((theta + PI) % (2 * PI)) - PI

clamp(v, lo, hi) == Max(lo, Min(hi, v))

\* math.sin on urad, result in 1e-3: range reduction by wrap_angle and odd
\* symmetry, then Bhaskara's rational approximation 16p/(5 pi^2 - 4p),
\* p = a (pi - a), evaluated with a in mrad.
Sin(theta) ==
  LET w   == wrap_angle(theta)
      a   == ToMilli(Abs(w))
      pim == ToMilli(PI)
      p   == a * (pim - a)
      num == RDiv(16 * p, 100)
      den == RDiv(5 * pim * pim - 4 * p, 100)
      v   == RDiv(num * 1000, den)
  IN  IF w < 0 THEN -v ELSE v

\* math.cos on urad, result in 1e-3
Cos(theta) == Sin(theta + (PI \div 2))

(* ------------------------------------------------------------------ *)
(* dynamics.py                                                        *)
(* state = <<x, x_dot, theta, theta_dot>>  (source indices 0..3)       *)
(* The 1e-9 guards added to the denominators are below the grid.       *)
(* ------------------------------------------------------------------ *)
\* tau_damp / (P.m * P.l**2)
ThetaDdExtra(theta_dot, pole_damp) ==
  DivMilli(-(pole_damp * ToMilli(theta_dot)), RDiv(m * l * l, 1000000))

dynamics_free(st, force, cart_damp, pole_damp) ==
  LET x_dot     == st[2]
      theta     == st[3]
      theta_dot == st[4]
      force_eff == force - cart_damp * ToMilli(x_dot)
      s         == Sin(theta)
      c         == Cos(theta)
      td2       == RDiv(ToMilli(theta_dot) * ToMilli(theta_dot), 1000)
      temp      == DivMilli(force_eff + RDiv(m * l, 1000) * RDiv(td2 * s, 1000), M + m)
      denom     == RDiv(l * (RDiv(4000, 3) - RDiv(m * RDiv(c * c, 1000), M + m)), 1000)
      theta_dd  == DivMilli(g * s - c * ToMilli(temp), denom)
      x_dd      == temp - DivMilli(RDiv(m * l, 1000) * ToMilli(ToMilli(theta_dd) * c), M + m)
  IN  <<x_dot, x_dd, theta_dot, theta_dd + ThetaDdExtra(theta_dot, pole_damp)>>

dynamics_constrained(st, pole_damp) ==
  LET theta       == st[3]
      theta_dot   == st[4]
      s           == Sin(theta)
      denom_fixed == RDiv(l * 4, 3)
      theta_dd    == DivMilli(g * s, denom_fixed) + ThetaDdExtra(theta_dot, pole_damp)
  IN  <<0, 0, theta_dot, theta_dd>>

\* state + (num/den) * k, componentwise
Axpy(st, num, den, k) == [j \in 1..4 |-> st[j] + RDiv(num * k[j], den)]

\* The derivative function f that rk4_step selects by regime
Deriv(st, force, constrained, cart_damp, pole_damp) ==
  IF constrained THEN dynamics_constrained(st, pole_damp)
                 ELSE dynamics_free(st, force, cart_damp, pole_damp)

\* nxt = state + (dt / 6) * (k1 + 2 k2 + 2 k3 + k4); nxt[2] = wrap_angle(nxt[2])
Rk4Combine(st, h, k1, k2, k3, k4) ==
  [j \in 1..4 |->
     IF j = 3
     THEN wrap_angle(st[j] + RDiv(h * (k1[j] + 2 * k2[j] + 2 * k3[j] + k4[j]), 6 * Hz))
     ELSE st[j] + RDiv(h * (k1[j] + 2 * k2[j] + 2 * k3[j] + k4[j]), 6 * Hz)]

\* k4 = f(state + dt * k3)
Rk4Stage4(st, force, h, constrained, cart_damp, pole_damp, k1, k2, k3) ==
  Rk4Combine(st, h, k1, k2, k3,
             Deriv(Axpy(st, h, Hz, k3), force, constrained, cart_damp, pole_damp))

\* k3 = f(state + 0.5 * dt * k2)
Rk4Stage3(st, force, h, constrained, cart_damp, pole_damp, k1, k2) ==
  Rk4Stage4(st, force, h, constrained, cart_damp, pole_damp, k1, k2,
            Deriv(Axpy(st, h, 2 * Hz, k2), force, constrained, cart_damp, pole_damp))

\* k2 = f(state + 0.5 * dt * k1)
Rk4Stage2(st, force, h, constrained, cart_damp, pole_damp, k1) ==
  Rk4Stage3(st, force, h, constrained, cart_damp, pole_damp, k1,
            Deriv(Axpy(st, h, 2 * Hz, k1), force, constrained, cart_damp, pole_damp))

\* k1 = f(state); h is the step in ticks: h/Hz seconds
rk4_step(st, force, h, constrained, cart_damp, pole_damp) ==
  Rk4Stage2(st, force, h, constrained, cart_damp, pole_damp,
            Deriv(st, force, constrained, cart_damp, pole_damp))

(* ------------------------------------------------------------------ *)
(* utils.py: mouse_force                                              *)
(* ------------------------------------------------------------------ *)
\* math.tanh on 1e-3, result in 1e-3: the Pade approximant
\* z (27 + z^2) / (27 + 9 z^2), which reaches 1 at |z| = 3, and 1 beyond.
Tanh(zm) ==
  LET z2 == RDiv(zm * zm, 1000)
  IN  IF zm >= 3000 THEN 1000
      ELSE IF zm <= -3000 THEN -1000
      ELSE RDiv(zm * (27000 + z2), 27000 + 9 * z2)

\* cart_x_px in 1e-6 px, mouse_x_px in whole pixels, result in uN
mouse_force(cart_x_px, mouse_x_px, left_down, right_down) ==
  IF ~(left_down \/ right_down) THEN 0
  ELSE LET dx_px == mouse_x_px * 1000000 - cart_x_px
           f     == IF left_down THEN 16 * RDiv(dx_px, 100)
                    ELSE 26 * 1000 * Tanh(RDiv(dx_px, 75000))
       IN  clamp(f, -max_mouse_force, max_mouse_force)

(* ------------------------------------------------------------------ *)
(* utils.py: mechanical_energy, in uJ                                 *)
(* ------------------------------------------------------------------ *)
\* I_com = (1/3) m l^2, in 1e-6 kg m^2
I_com == RDiv(m * l * l, 3000)

\* V = P.m * P.g * P.l * (1.0 - c), c in 1e-3
PotentialV(c) == RDiv(RDiv(m * g, 1000) * l, 1000) * (1000 - c)

\* T_cart + T_com + T_rot from the velocities in 1e-3
KineticT(xd, td, x_com_dot, y_com_dot) ==
  MulMilli(RDiv(xd * xd, 2), M)
  + MulMilli(RDiv(x_com_dot * x_com_dot + y_com_dot * y_com_dot, 2), m)
  + RDiv(MulMilli(RDiv(td * td, 2), I_com), 1000)

\* x_com_dot = x_dot + l theta_dot c, y_com_dot = -l theta_dot s
EnergyOf(xd, td, s, c) ==
  KineticT(xd, td, xd + RDiv(l * RDiv(td * c, 1000), 1000),
           -RDiv(l * RDiv(td * s, 1000), 1000))
  + PotentialV(c)

mechanical_energy(st) == EnergyOf(ToMilli(st[2]), ToMilli(st[4]), Sin(st[3]), Cos(st[3]))

(* ------------------------------------------------------------------ *)
(* controller.py                                                      *)
(* A controller is [k_p, k_i, k_d, x_err_i, prev_t]; gains are whole   *)
(* numbers, x_err_i is in um*s, prev_t in ticks.                       *)
(* ------------------------------------------------------------------ *)
ControllerInit == [k_p |-> 5, k_i |-> 2, k_d |-> 3, x_err_i |-> 0, prev_t |-> 0]

\* Mutant of ControllerReset: prev_t is left as it was.
ControllerResetKeepsPrevT(c) == [c EXCEPT !.x_err_i = 0]

ControllerReset(c) == [c EXCEPT !.x_err_i = 0, !.prev_t = 0]

\* Mutant of ControllerCall: the output is formed from the integral as it was
\* before this call's update.
ControllerCallStaleIntegral(c, st, tt, rx, rtheta) ==
  LET x_err   == rx - st[1]
      x_err_i == c.x_err_i + RDiv(x_err * (tt - c.prev_t), Hz)
  IN  [u |-> c.k_p * x_err + c.k_i * c.x_err_i + c.k_d * st[2] * (-1),
       c |-> [c EXCEPT !.prev_t = tt, !.x_err_i = x_err_i]]

\* Mutant of ControllerCall: the law also acts on the angle error.
ControllerCallWithAngle(c, st, tt, rx, rtheta) ==
  LET x_err   == rx - st[1]
      x_err_i == c.x_err_i + RDiv(x_err * (tt - c.prev_t), Hz)
  IN  [u |-> c.k_p * x_err + c.k_i * x_err_i + c.k_d * st[2] * (-1)
             + c.k_p * (rtheta - st[3]),
       c |-> [c EXCEPT !.prev_t = tt, !.x_err_i = x_err_i]]

\* Controller.__call__: the returned force u (uN) and the controller afterwards
ControllerCall(c, st, tt, rx, rtheta) ==
  LET x       == st[1]
      x_dot   == st[2]
      dtc     == tt - c.prev_t
      x_err   == rx - x
      x_err_i == c.x_err_i + RDiv(x_err * dtc, Hz)
      u_p     == c.k_p * x_err
      u_i     == c.k_i * x_err_i
      u_d     == c.k_d * x_dot * (-1)
  IN  [u |-> u_p + u_i + u_d,
       c |-> [c EXCEPT !.prev_t = tt, !.x_err_i = x_err_i]]

(* ------------------------------------------------------------------ *)
(* metrics.py                                                         *)
(* None is the empty sequence, a float v is <<v>>.                     *)
(* ------------------------------------------------------------------ *)
None == <<>>

Some(v) == <<v>>

MetricsInit ==
  [max_abs_theta |-> 0, max_abs_x_dev |-> 0, energy_abs_impulse |-> 0,
   settle_time |-> None, in_band_since |-> None]

MetricsReset(mt) ==
  [mt EXCEPT !.max_abs_theta = 0, !.max_abs_x_dev = 0, !.energy_abs_impulse = 0,
             !.settle_time = None, !.in_band_since = None]

\* in_band of Metrics.update
InBand(x_err, theta_err) ==
  (Abs(x_err) <= settle_x_thresh) /\ (Abs(theta_err) <= settle_theta_thresh)

\* Mutant of SettleUpdate: an out-of-band update does not clear the marker.
SettleUpdateKeepsMarker(mt, tt, in_band) ==
  IF mt.settle_time = None /\ in_band
  THEN IF mt.in_band_since = None
       THEN [mt EXCEPT !.in_band_since = Some(tt)]
       ELSE IF (tt - mt.in_band_since[1]) >= settle_hold_time
            THEN [mt EXCEPT !.settle_time = mt.in_band_since]
            ELSE mt
  ELSE mt

\* Mutant of SettleUpdate: the marker is kept up to date after settling too.
SettleUpdateTracksAfterSettle(mt, tt, in_band) ==
  IF in_band
  THEN IF mt.in_band_since = None
       THEN [mt EXCEPT !.in_band_since = Some(tt)]
       ELSE IF mt.settle_time = None /\ (tt - mt.in_band_since[1]) >= settle_hold_time
            THEN [mt EXCEPT !.settle_time = mt.in_band_since]
            ELSE mt
  ELSE [mt EXCEPT !.in_band_since = None]

\* the settle_time / _in_band_since part of Metrics.update
SettleUpdate(mt, tt, in_band) ==
  IF mt.settle_time = None
  THEN IF in_band
       THEN IF mt.in_band_since = None
            THEN [mt EXCEPT !.in_band_since = Some(tt)]
            ELSE IF (tt - mt.in_band_since[1]) >= settle_hold_time
                 THEN [mt EXCEPT !.settle_time = mt.in_band_since]
                 ELSE mt
       ELSE [mt EXCEPT !.in_band_since = None]
  ELSE mt

\* Mutant of AccumUpdate: the position maximum is taken without abs.
AccumUpdateSignedMax(mt, x_err, theta_err, force, h) ==
  [mt EXCEPT !.max_abs_theta = Max(mt.max_abs_theta, Abs(theta_err)),
             !.max_abs_x_dev = Max(mt.max_abs_x_dev, x_err),
             !.energy_abs_impulse = mt.energy_abs_impulse + RDiv(Abs(force) * h, Hz)]

\* Mutant of AccumUpdate: the impulse stops accumulating once settle_time is set.
AccumUpdateStopsWhenSettled(mt, x_err, theta_err, force, h) ==
  [mt EXCEPT !.max_abs_theta = Max(mt.max_abs_theta, Abs(theta_err)),
             !.max_abs_x_dev = Max(mt.max_abs_x_dev, Abs(x_err)),
             !.energy_abs_impulse =
                IF mt.settle_time = None
                THEN mt.energy_abs_impulse + RDiv(Abs(force) * h, Hz)
                ELSE mt.energy_abs_impulse]

\* the running maxima and the impulse of Metrics.update; h is dt in ticks
AccumUpdate(mt, x_err, theta_err, force, h) ==
  [mt EXCEPT !.max_abs_theta = Max(mt.max_abs_theta, Abs(theta_err)),
             !.max_abs_x_dev = Max(mt.max_abs_x_dev, Abs(x_err)),
             !.energy_abs_impulse = mt.energy_abs_impulse + RDiv(Abs(force) * h, Hz)]

MetricsUpdate(mt, st, tt, force, rx, rtheta, h) ==
  LET theta_err == wrap_angle(st[3] - rtheta)
      x_err     == st[1] - rx
  IN  SettleUpdate(AccumUpdate(mt, x_err, theta_err, force, h), tt,
                   InBand(x_err, theta_err))

(* ------------------------------------------------------------------ *)
(* main.py: geometry, constraint resolver, one physics sub-step       *)
(* ------------------------------------------------------------------ *)
\* window width in pixels
W == 1600

\* int(P.cart_width_m * ppm)
cart_w == (cart_width_m * pixels_per_meter) \div 1000

x_min_px == cart_w \div 2 + 12

x_max_px == W - cart_w \div 2 - 12

\* um
x_min_m == RDiv((x_min_px - W \div 2) * 1000000, pixels_per_meter)

\* um
x_max_m == RDiv((x_max_px - W \div 2) * 1000000, pixels_per_meter)

\* 1e-6 m in um
eps == 1

\* 18.0 N in uN
key_force_mag == 18000000

\* the 0.01 m of the Q / A keys, in um
ref_x_step == 10000

\* math.radians(0.5) of the W / S keys, in urad
ref_theta_step == RDiv(PI, 360)

reset_state == <<0, 0, 150000, 0>>

\* W / 2 + x_m * ppm, in 1e-6 px
cart_px_from_x(x_m) == (W \div 2) * 1000000 + x_m * pixels_per_meter

\* Mutant of constraint_flag: the direction of the force is not looked at.
ConstraintFlagAtWallOnly(st, force_total) ==
  st[1] <= x_min_m + eps \/ st[1] >= x_max_m - eps

constraint_flag(st, force_total) ==
  LET x             == st[1]
      at_left       == x <= x_min_m + eps
      at_right      == x >= x_max_m - eps
      pushing_left  == force_total < 0
      pushing_right == force_total > 0
  IN  (at_left /\ pushing_left) \/ (at_right /\ pushing_right)

\* main.py 198-203: the clamp before integrating
PreClamp(st, constrained) ==
  IF constrained
  THEN LET s1 == IF st[1] <= x_min_m THEN [st EXCEPT ![1] = x_min_m] ELSE st
           s2 == IF s1[1] >= x_max_m THEN [s1 EXCEPT ![1] = x_max_m] ELSE s1
       IN  [s2 EXCEPT ![2] = 0]
  ELSE st

\* Mutant of SafetyClamp: only the lower bound is enforced.
SafetyClampLowerOnly(st) ==
  IF st[1] < x_min_m
  THEN [st EXCEPT ![1] = x_min_m, ![2] = IF st[2] < 0 THEN 0 ELSE st[2]]
  ELSE st

\* Mutant of SafetyClamp: the velocity is zeroed whenever x is clamped.
SafetyClampZeroesVelocity(st) ==
  IF st[1] < x_min_m THEN [st EXCEPT ![1] = x_min_m, ![2] = 0]
  ELSE IF st[1] > x_max_m THEN [st EXCEPT ![1] = x_max_m, ![2] = 0]
  ELSE st

\* main.py 207-215: the safety clamp after integrating
SafetyClamp(st) ==
  IF st[1] < x_min_m
  THEN [st EXCEPT ![1] = x_min_m, ![2] = IF st[2] < 0 THEN 0 ELSE st[2]]
  ELSE IF st[1] > x_max_m
       THEN [st EXCEPT ![1] = x_max_m, ![2] = IF st[2] > 0 THEN 0 ELSE st[2]]
       ELSE st

\* P.cart_damping if friction_on else 0.0
CartDamp(fr) == IF fr THEN cart_damping ELSE 0

\* P.pole_damping if friction_on else 0.0
PoleDamp(fr) == IF fr THEN pole_damping ELSE 0

\* main.py 207-215 at the end of a sub-step: the trace of the sub-step
SubStepPost(st, force_total, constrained, pre, raw) ==
  [acted |-> TRUE, start |-> st, force |-> force_total,
   constrained |-> constrained, pre |-> pre, raw |-> raw,
   post |-> SafetyClamp(raw)]

\* main.py 205: state = rk4_step(state, f_total, P.dt, constrained, ...)
SubStepRk4(st, force_total, fr, constrained, pre) ==
  SubStepPost(st, force_total, constrained, pre,
              rk4_step(pre, force_total, dt, constrained, CartDamp(fr), PoleDamp(fr)))

\* main.py 198-203
SubStepPre(st, force_total, fr, constrained) ==
  SubStepRk4(st, force_total, fr, constrained, PreClamp(st, constrained))

\* main.py 196-215: one pass of the sub-step loop over the state, with the
\* intermediate values it goes through
SubStepTrace(st, force_total, fr) ==
  SubStepPre(st, force_total, fr, constraint_flag(st, force_total))

\* the record of "no sub-step yet"
NoSubStep ==
  [acted |-> FALSE, start |-> reset_state, force |-> 0, constrained |-> FALSE,
   pre |-> reset_state, raw |-> reset_state, post |-> reset_state]

\* the six history deques, maxlen = P.history_len
HistEmpty ==
  [t |-> <<>>, x |-> <<>>, x_dot |-> <<>>, theta |-> <<>>, theta_dot |-> <<>>,
   force |-> <<>>]

\* deque.append with maxlen n
DequeAppend(q, v, n) == IF Len(q) >= n THEN Append(Tail(q), v) ELSE Append(q, v)

\* Mutant of push_history: the force buffer is left out.
PushHistoryWithoutForce(h, tt, st, force) ==
  [t         |-> DequeAppend(h.t, tt, history_len),
   x         |-> DequeAppend(h.x, st[1], history_len),
   x_dot     |-> DequeAppend(h.x_dot, st[2], history_len),
   theta     |-> DequeAppend(h.theta, wrap_angle(st[3]), history_len),
   theta_dot |-> DequeAppend(h.theta_dot, st[4], history_len),
   force     |-> h.force]

push_history(h, tt, st, force) ==
  [t         |-> DequeAppend(h.t, tt, history_len),
   x         |-> DequeAppend(h.x, st[1], history_len),
   x_dot     |-> DequeAppend(h.x_dot, st[2], history_len),
   theta     |-> DequeAppend(h.theta, wrap_angle(st[3]), history_len),
   theta_dot |-> DequeAppend(h.theta_dot, st[4], history_len),
   force     |-> DequeAppend(h.force, force, history_len)]

(* ------------------------------------------------------------------ *)
(* State                                                              *)
(* ------------------------------------------------------------------ *)
VARIABLES
  state,        \* main.py: the State vector <<x, x_dot, theta, theta_dot>>
  t,            \* main.py: simulated time, in ticks
  paused,       \* main.py
  show_history, \* main.py
  friction_on,  \* main.py
  key_force,    \* main.py
  ref_x,        \* main.py
  ref_theta,    \* main.py
  running,      \* main.py
  ctrl,         \* controller.py: the shared Controller instance
  metrics,      \* main.py: the Metrics instance
  hist,         \* main.py: the six history deques
  u_raw,        \* main.py: raw controller force of the frame
  u,            \* main.py: clamped controller force of the frame
  is_saturated, \* main.py
  f_total,      \* main.py: total force of the frame
  panel,        \* gui.py: ParameterPanel [dragging_index, editing_index, edit_text]
  held,         \* pygame: keys and mouse buttons held down, mouse position
  pc,           \* position in the main loop: "frame" (top of the loop) or "sub"
  i,            \* index of the next sub-step of the frame
  last,         \* trace of the latest sub-step (SubStepTrace)
  ctrlB,        \* a second Controller instance
  u_rawB,       \* the force the second instance returned
  call,         \* the latest operation on the controllers, with its inputs
  mlog,         \* SpecMetrics: the Metrics.update calls since the last reset
  mcall,        \* the arguments of the latest Metrics.update call
  mprev,        \* the Metrics before the latest Metrics.update
  evt           \* SpecUI: the latest event or frame of the main loop (UIStep)

vars ==
  <<state, t, paused, show_history, friction_on, key_force, ref_x, ref_theta,
    running, ctrl, metrics, hist, u_raw, u, is_saturated, f_total, panel, held,
    pc, i, last, ctrlB, u_rawB, call, mlog, mprev, mcall, evt>>

\* variables of the main loop other than the physical state
loopRest ==
  <<paused, show_history, key_force, ref_x, ref_theta, running, hist, u_raw, u,
    is_saturated, panel, held, evt>>

ctrlVars == <<ctrl, ctrlB, u_rawB, call>>

metricsVars == <<metrics, mlog, mprev, mcall>>

(* ------------------------------------------------------------------ *)
(* Bounds                                                             *)
(* ------------------------------------------------------------------ *)
\* the main loop starts no frame at or after this many ticks
MaxT == 150

\* sub-steps applied in a row by SpecStep
MaxSteps == 3

\* controller calls made in a run of SpecCtrl
MaxCalls == 3

\* Metrics.update calls since the last reset in SpecMetrics
MaxUpdates == 5

\* the main loop of SpecHist starts no frame at or after this many ticks
MaxHistT == 1810

\* rk4_step calls made in a run of SpecEnergy
MaxEnergySteps == 1000

\* events handled and frames begun in a run of SpecUI
MaxUISteps == 5

\* the main loop of SpecUI starts no unpaused frame at or after this many ticks
MaxUIT == 2

\* SpecUI types no character into an edit text of this length
MaxEditLen == 2

(* ------------------------------------------------------------------ *)
(* Environment: what pygame reports as held down                      *)
(* ------------------------------------------------------------------ *)
NoKeys ==
  [left |-> FALSE, right |-> FALSE, q |-> FALSE, a |-> FALSE, w |-> FALSE,
   s |-> FALSE, mx |-> W \div 2, mleft |-> FALSE, mright |-> FALSE]

HeldConfigs ==
  { NoKeys,
    [NoKeys EXCEPT !.right = TRUE, !.mleft = TRUE, !.mx = W - 1],
    [NoKeys EXCEPT !.left = TRUE, !.mleft = TRUE, !.mx = 0],
    [NoKeys EXCEPT !.mright = TRUE, !.mx = W - 1],
    [NoKeys EXCEPT !.left = TRUE, !.right = TRUE, !.mright = TRUE, !.mx = x_min_px] }

(* ------------------------------------------------------------------ *)
(* gui.py: ParameterPanel                                             *)
(* ------------------------------------------------------------------ *)
\* Text is a sequence of one-character strings; a slider index counts from 0
\* as in the code.

\* main.py 64-75: the panel's position, width and its three sliders
H == 800

panel_x == 12

panel_y == H - 140

panel_width == 400

sliders == <<"k_p", "k_i", "k_d">>

min_val == 0

max_val == 10

\* gui.py 41-48: styling
padding == 12

slider_height == 6

slider_spacing == 28

title_height == 26

label_width == 28

input_width == 55

input_height == 18

\* gui.py 51: the computed height
panel_height ==
  title_height + padding + Len(sliders) * slider_spacing + padding - 4

SliderIndices == 0 .. (Len(sliders) - 1)

\* gui.py 76-84: _get_slider_rect
slider_rect(index) ==
  [x |-> panel_x + padding + label_width + 6,
   y |-> panel_y + title_height + padding + index * slider_spacing + 6,
   w |-> panel_width - padding - label_width - 6 - input_width - 8 - padding,
   h |-> slider_height]

\* gui.py 86-91: _get_input_rect
input_rect(index) ==
  [x |-> slider_rect(index).x + slider_rect(index).w + 6,
   y |-> slider_rect(index).y - ((input_height - slider_rect(index).h) \div 2),
   w |-> input_width,
   h |-> input_height]

\* pygame.Rect.collidepoint: the right and bottom edges are outside
collidepoint(r, mx, my) ==
  r.x <= mx /\ mx < r.x + r.w /\ r.y <= my /\ my < r.y + r.h

\* gui.py 154: the click is within the panel, edges included
InPanel(mx, my) ==
  /\ panel_x <= mx /\ mx <= panel_x + panel_width
  /\ panel_y <= my /\ my <= panel_y + panel_height

\* gui.py 168-170: the click is near the handle or on the track of slider index
OnSlider(index, mx, my) ==
  /\ slider_rect(index).x - 5 <= mx
  /\ mx <= slider_rect(index).x + slider_rect(index).w + 5
  /\ slider_rect(index).y - 12 <= my
  /\ my <= slider_rect(index).y + slider_rect(index).h + 12

\* the first index a "for i in range(len(self.sliders))" loop finds in hits
FirstOf(hits) == CHOOSE k \in hits : \A j \in hits : k <= j

InputsAt(mx, my) == { k \in SliderIndices : collidepoint(input_rect(k), mx, my) }

SlidersAt(mx, my) == { k \in SliderIndices : OnSlider(k, mx, my) }

PanelInit == [dragging_index |-> None, editing_index |-> None, edit_text |-> <<>>]

is_dragging(p) == p.dragging_index # None

is_editing(p) == p.editing_index # None

DigitChars == <<"0", "1", "2", "3", "4", "5", "6", "7", "8", "9">>

\* str.isdigit on one character of DigitChars or of the keyboard's other keys
IsDigit(ch) == \E d \in 1 .. Len(DigitChars) : DigitChars[d] = ch

DigitValue(ch) == (CHOOSE d \in 1 .. Len(DigitChars) : DigitChars[d] = ch) - 1

RECURSIVE DecDigits(_)
\* the decimal digits of a natural number
DecDigits(n) ==
  IF n < 10 THEN <<DigitChars[n + 1]>>
  ELSE DecDigits(n \div 10) \o <<DigitChars[(n % 10) + 1]>>

\* gui.py 198-201: f"{value:.2f}".rstrip('0').rstrip('.') of a whole-number
\* value (the gains of the model are whole numbers): "5.00" becomes "5"
FormatValue(value) ==
  IF value < 0 THEN <<"-">> \o DecDigits(-value) ELSE DecDigits(value)

\* the text without a leading minus sign
Unsigned(text) ==
  IF Len(text) > 0 /\ text[1] = "-" THEN Tail(text) ELSE text

\* gui.py 210: float(self.edit_text) does not raise ValueError, for a text of
\* digits and minus signs: an optional sign and then one digit or more
ValidFloat(text) ==
  /\ Len(Unsigned(text)) > 0
  /\ \A k \in 1 .. Len(Unsigned(text)) : IsDigit(Unsigned(text)[k])

RECURSIVE DigitsValue(_)
DigitsValue(ds) ==
  IF ds = <<>> THEN 0
  ELSE 10 * DigitsValue(SubSeq(ds, 1, Len(ds) - 1)) + DigitValue(ds[Len(ds)])

\* gui.py 210: float(self.edit_text) of a valid text
ParseFloat(text) ==
  IF text[1] = "-" THEN -DigitsValue(Unsigned(text)) ELSE DigitsValue(text)

\* setattr(ctrl, slider.attr, value) for slider index
SetGain(c, index, value) == [c EXCEPT ![sliders[index + 1]] = value]

\* gui.py 191-202: _start_edit
start_edit(p, c, index) ==
  [p EXCEPT !.editing_index = Some(index),
            !.edit_text = FormatValue(c[sliders[index + 1]])]

\* gui.py 204-218: _commit_edit; the panel and the controller after it
commit_edit(p, c) ==
  IF p.editing_index = None THEN [panel |-> p, ctrl |-> c]
  ELSE [panel |-> [p EXCEPT !.editing_index = None, !.edit_text = <<>>],
        ctrl  |-> IF ValidFloat(p.edit_text)
                  THEN SetGain(c, p.editing_index[1], ParseFloat(p.edit_text))
                  ELSE c]

\* gui.py 220-223: _cancel_edit
cancel_edit(p) == [p EXCEPT !.editing_index = None, !.edit_text = <<>>]

\* gui.py 225-242: _update_value_from_mouse; norm is clamped to [0, 1] and the
\* value rounded to the whole-number gains of the model (exact at both ends of
\* the track)
update_value_from_mouse(p, c, mx) ==
  IF p.dragging_index = None THEN c
  ELSE SetGain(c, p.dragging_index[1],
               min_val + RDiv(clamp(mx - slider_rect(p.dragging_index[1]).x, 0,
                                    slider_rect(p.dragging_index[1]).w)
                                * (max_val - min_val),
                              slider_rect(p.dragging_index[1]).w))

\* a pygame event, with the shift state pygame.key.get_mods() reports with it
NoEvent ==
  [type |-> "NOEVENT", key |-> "", unicode |-> "", shift |-> FALSE, button |-> 0,
   pos |-> <<0, 0>>]

KeyDown(key, unicode, shift) ==
  [NoEvent EXCEPT !.type = "KEYDOWN", !.key = key, !.unicode = unicode,
                  !.shift = shift]

MouseEvent(type, button, mx, my) ==
  [NoEvent EXCEPT !.type = type, !.button = button, !.pos = <<mx, my>>]

\* what handle_event did: its return value, whether it raised an exception
\* instead of returning, and the panel and the controller it left
Handled(consumed, raised, p, c) ==
  [consumed |-> consumed, raised |-> raised, panel |-> p, ctrl |-> c]

\* gui.py 151-189: handle_event below the text-edit block
HandleIdle(p, c, ev) ==
  IF ev.type = "MOUSEBUTTONDOWN" /\ ev.button = 1
  THEN IF InPanel(ev.pos[1], ev.pos[2])
       THEN IF InputsAt(ev.pos[1], ev.pos[2]) # {}
            THEN Handled(TRUE, FALSE,
                         start_edit(p, c, FirstOf(InputsAt(ev.pos[1], ev.pos[2]))), c)
            ELSE IF SlidersAt(ev.pos[1], ev.pos[2]) # {}
            THEN Handled(TRUE, FALSE,
                         [p EXCEPT !.dragging_index =
                                     Some(FirstOf(SlidersAt(ev.pos[1], ev.pos[2])))],
                         update_value_from_mouse(
                           [p EXCEPT !.dragging_index =
                                       Some(FirstOf(SlidersAt(ev.pos[1], ev.pos[2])))],
                           c, ev.pos[1]))
            ELSE Handled(TRUE, FALSE, p, c)
       ELSE Handled(FALSE, FALSE, p, c)
  ELSE IF ev.type = "MOUSEBUTTONUP" /\ ev.button = 1
  THEN IF p.dragging_index # None
       THEN Handled(TRUE, FALSE, [p EXCEPT !.dragging_index = None], c)
       ELSE Handled(FALSE, FALSE, p, c)
  ELSE IF ev.type = "MOUSEMOTION"
  THEN IF p.dragging_index # None
       THEN Handled(TRUE, FALSE, p, update_value_from_mouse(p, c, ev.pos[1]))
       ELSE Handled(FALSE, FALSE, p, c)
  ELSE Handled(FALSE, FALSE, p, c)

\* gui.py 119-127: K_TAB while editing, given what _commit_edit left. The next
\* index is computed from self.editing_index after _commit_edit: on None the
\* subtraction or addition raises TypeError.
TabAfterCommit(done, shift) ==
  IF done.panel.editing_index = None
  THEN Handled(FALSE, TRUE, done.panel, done.ctrl)
  ELSE Handled(TRUE, FALSE,
               start_edit(done.panel, done.ctrl,
                          (done.panel.editing_index[1] + (IF shift THEN -1 ELSE 1))
                            % Len(sliders)),
               done.ctrl)

\* gui.py 109-132: a KEYDOWN event while editing
EditKeyDown(p, c, ev) ==
  IF ev.key = "K_RETURN" \/ ev.key = "K_KP_ENTER"
  THEN Handled(TRUE, FALSE, commit_edit(p, c).panel, commit_edit(p, c).ctrl)
  ELSE IF ev.key = "K_ESCAPE"
  THEN Handled(TRUE, FALSE, cancel_edit(p), c)
  ELSE IF ev.key = "K_BACKSPACE"
  THEN Handled(TRUE, FALSE,
               [p EXCEPT !.edit_text = SubSeq(p.edit_text, 1, Len(p.edit_text) - 1)],
               c)
  ELSE IF ev.key = "K_TAB"
  THEN TabAfterCommit(commit_edit(p, c), ev.shift)
  ELSE IF ev.unicode # "" /\ (IsDigit(ev.unicode) \/ ev.unicode \in {".", "-"})
  THEN Handled(TRUE, FALSE, [p EXCEPT !.edit_text = p.edit_text \o <<ev.unicode>>], c)
  ELSE Handled(TRUE, FALSE, p, c)

\* gui.py 134-149: a left click while editing
EditClick(p, c, ev) ==
  IF InputsAt(ev.pos[1], ev.pos[2]) # {}
  THEN IF Some(FirstOf(InputsAt(ev.pos[1], ev.pos[2]))) # p.editing_index
       THEN Handled(TRUE, FALSE,
                    start_edit(commit_edit(p, c).panel, commit_edit(p, c).ctrl,
                               FirstOf(InputsAt(ev.pos[1], ev.pos[2]))),
                    commit_edit(p, c).ctrl)
       ELSE Handled(TRUE, FALSE, p, c)
  ELSE HandleIdle(commit_edit(p, c).panel, commit_edit(p, c).ctrl, ev)

\* gui.py 103-189: ParameterPanel.handle_event
handle_event(p, c, ev) ==
  IF p.editing_index # None /\ ev.type = "KEYDOWN" THEN EditKeyDown(p, c, ev)
  ELSE IF p.editing_index # None /\ ev.type = "MOUSEBUTTONDOWN" /\ ev.button = 1
  THEN EditClick(p, c, ev)
  ELSE HandleIdle(p, c, ev)

\* the record of one event or frame of the main loop: how many came before it,
\* the event, whether the panel was editing when it arrived and what
\* handle_event answered
UIStep(n, kind, ev, editing, consumed, raised) ==
  [n |-> n, kind |-> kind, ev |-> ev, editing |-> editing,
   consumed |-> consumed, raised |-> raised]

NoUIStep == UIStep(0, "none", NoEvent, FALSE, FALSE, FALSE)

(* ------------------------------------------------------------------ *)
(* Initial states                                                     *)
(* ------------------------------------------------------------------ *)
\* main.py 43-61, 77-82: the main loop's variables other than state, force and
\* position
InitLoopRest ==
  /\ t = 0
  /\ paused = FALSE
  /\ show_history = TRUE
  /\ key_force = 0
  /\ ref_x = 0
  /\ ref_theta = 0
  /\ running = TRUE
  /\ metrics = MetricsInit
  /\ hist = HistEmpty
  /\ u_raw = 0
  /\ u = 0
  /\ is_saturated = FALSE
  /\ panel = PanelInit
  /\ evt = NoUIStep

\* the record of "no controller operation yet"
NoCall ==
  [op |-> "init", n |-> 0, before |-> ControllerInit, st |-> reset_state, tt |-> 0,
   rx |-> 0, rth |-> 0, stB |-> reset_state, rthB |-> 0, first |-> FALSE,
   dirty |-> 0, paused |-> FALSE]

InitCtrl ==
  /\ ctrl = ControllerInit
  /\ ctrlB = ControllerInit
  /\ u_rawB = 0
  /\ call = NoCall

\* the record of "no Metrics.update yet"
NoUpdate ==
  [st |-> reset_state, tt |-> 0, force |-> 0, rx |-> 0, rth |-> 0, h |-> 0]

InitMetricsLog ==
  /\ mcall = NoUpdate
  /\ mlog = <<>>
  /\ mprev = MetricsInit

\* the program after construction, with any of the modelled key and mouse
\* configurations held down
Init ==
  /\ state = reset_state
  /\ friction_on = TRUE
  /\ f_total = 0
  /\ pc = "frame"
  /\ i = 0
  /\ last = NoSubStep
  /\ held \in HeldConfigs
  /\ InitLoopRest
  /\ InitCtrl
  /\ InitMetricsLog

(* ------------------------------------------------------------------ *)
(* main.py: the main loop                                             *)
(* ------------------------------------------------------------------ *)
\* main.py 144-169: key_force, ref_x and ref_theta after the keyboard poll
PollKeys(h, editing, kf, rx, rth) ==
  IF ~editing
  THEN [key_force |-> IF h.left /\ ~h.right THEN -key_force_mag
                      ELSE IF h.right /\ ~h.left THEN key_force_mag
                      ELSE 0,
        ref_x     |-> clamp(rx - (IF h.q THEN ref_x_step ELSE 0)
                               + (IF h.a THEN ref_x_step ELSE 0),
                            x_min_m, x_max_m),
        ref_theta |-> wrap_angle(rth + (IF h.w THEN ref_theta_step ELSE 0)
                                     - (IF h.s THEN ref_theta_step ELSE 0))]
  ELSE [key_force |-> 0, ref_x |-> rx, ref_theta |-> rth]

\* main.py 186: u = clamp(u_raw, -P.max_force, P.max_force)
ClampForce(raw) == clamp(raw, -max_force, max_force)

\* Mutant of Saturated: the abs is left out.
SaturatedHighOnly(raw) == raw > max_force

\* main.py 187: is_saturated = abs(u_raw) > P.max_force
Saturated(raw) == Abs(raw) > max_force

\* Mutant of FrameBegin: the frame goes on to its sub-steps even when paused.
FrameBeginIgnoresPause ==
  /\ pc = "frame"
  /\ running
  /\ t < MaxT
  /\ LET k          == PollKeys(held, is_editing(panel), key_force, ref_x, ref_theta)
         gated      == is_dragging(panel) \/ is_editing(panel)
         left_down  == held.mleft /\ ~gated
         right_down == held.mright /\ ~gated
         r          == ControllerCall(ctrl, state, t, k.ref_x, k.ref_theta)
         f_mouse    == mouse_force(cart_px_from_x(state[1]), held.mx, left_down, right_down)
     IN  /\ key_force' = k.key_force
         /\ ref_x' = k.ref_x
         /\ ref_theta' = k.ref_theta
         /\ ctrl' = r.c
         /\ u_raw' = r.u
         /\ u' = ClampForce(r.u)
         /\ is_saturated' = Saturated(r.u)
         /\ f_total' = ClampForce(r.u) + f_mouse + k.key_force
         /\ call' = [NoCall EXCEPT !.op = "call", !.before = ctrl, !.st = state,
                                   !.tt = t, !.rx = k.ref_x, !.rth = k.ref_theta,
                                   !.paused = paused]
  /\ pc' = "sub"
  /\ i' = 0
  /\ UNCHANGED <<state, t, paused, show_history, friction_on, running, metrics,
                 hist, panel, held, evt, last, ctrlB, u_rawB, mlog, mprev, mcall>>

\* main.py 144-194: keyboard and mouse poll, controller call, forces; then the
\* frame goes on to its sub-steps unless paused; no unpaused frame starts at or
\* after horizon ticks
FrameBeginUpTo(horizon) ==
  /\ pc = "frame"
  /\ running
  /\ paused \/ t < horizon
  /\ LET k          == PollKeys(held, is_editing(panel), key_force, ref_x, ref_theta)
         gated      == is_dragging(panel) \/ is_editing(panel)
         left_down  == held.mleft /\ ~gated
         right_down == held.mright /\ ~gated
         r          == ControllerCall(ctrl, state, t, k.ref_x, k.ref_theta)
         f_mouse    == mouse_force(cart_px_from_x(state[1]), held.mx, left_down, right_down)
     IN  /\ key_force' = k.key_force
         /\ ref_x' = k.ref_x
         /\ ref_theta' = k.ref_theta
         /\ ctrl' = r.c
         /\ u_raw' = r.u
         /\ u' = ClampForce(r.u)
         /\ is_saturated' = Saturated(r.u)
         /\ f_total' = ClampForce(r.u) + f_mouse + k.key_force
         /\ call' = [NoCall EXCEPT !.op = "call", !.before = ctrl, !.st = state,
                                   !.tt = t, !.rx = k.ref_x, !.rth = k.ref_theta,
                                   !.paused = paused]
  /\ pc' = IF paused THEN "frame" ELSE "sub"
  /\ i' = 0
  /\ UNCHANGED <<state, t, paused, show_history, friction_on, running, metrics,
                 hist, panel, held, last, ctrlB, u_rawB, mlog, mprev, mcall>>

FrameBegin == FrameBeginUpTo(MaxT) /\ UNCHANGED evt

\* Mutant of SubStep: the controller is invoked again in each sub-step.
SubStepCallsController ==
  /\ pc = "sub"
  /\ i < substeps
  /\ ctrl' = ControllerCall(ctrl, state, t, ref_x, ref_theta).c
  /\ u_raw' = ControllerCall(ctrl, state, t, ref_x, ref_theta).u
  /\ u' = ClampForce(u_raw')
  /\ is_saturated' = Saturated(u_raw')
  /\ last' = SubStepTrace(state, f_total, friction_on)
  /\ state' = last'.post
  /\ t' = t + dt
  /\ metrics' = MetricsUpdate(metrics, state', t', f_total, ref_x, ref_theta, dt)
  /\ mcall' = [st |-> state', tt |-> t', force |-> f_total, rx |-> ref_x,
               rth |-> ref_theta, h |-> dt]
  /\ mprev' = metrics
  /\ i' = i + 1
  /\ UNCHANGED <<friction_on, f_total, pc, paused, show_history, key_force, ref_x,
                 ref_theta, running, hist, panel, held, evt, ctrlB, u_rawB, call, mlog>>

\* Mutant of SubStep: Metrics.update is called before the time is advanced.
SubStepUpdatesBeforeTime ==
  /\ pc = "sub"
  /\ i < substeps
  /\ last' = SubStepTrace(state, f_total, friction_on)
  /\ state' = last'.post
  /\ metrics' = MetricsUpdate(metrics, state', t, f_total, ref_x, ref_theta, dt)
  /\ mcall' = [st |-> state', tt |-> t, force |-> f_total, rx |-> ref_x,
               rth |-> ref_theta, h |-> dt]
  /\ t' = t + dt
  /\ mprev' = metrics
  /\ i' = i + 1
  /\ UNCHANGED <<friction_on, f_total, pc, loopRest, ctrlVars, mlog>>

\* main.py 195-218: one sub-step of the frame
SubStep ==
  /\ pc = "sub"
  /\ i < substeps
  /\ last' = SubStepTrace(state, f_total, friction_on)
  /\ state' = last'.post
  /\ t' = t + dt
  /\ metrics' = MetricsUpdate(metrics, state', t', f_total, ref_x, ref_theta, dt)
  /\ mcall' = [st |-> state', tt |-> t', force |-> f_total, rx |-> ref_x,
               rth |-> ref_theta, h |-> dt]
  /\ mprev' = metrics
  /\ i' = i + 1
  /\ UNCHANGED <<friction_on, f_total, pc, loopRest, ctrlVars, mlog>>

\* main.py 220: push_history(t, state, f_total) closes an unpaused frame
FrameEnd ==
  /\ pc = "sub"
  /\ i = substeps
  /\ hist' = push_history(hist, t, state, f_total)
  /\ pc' = "frame"
  /\ UNCHANGED <<state, t, paused, show_history, friction_on, key_force, ref_x,
                 ref_theta, running, metrics, u_raw, u, is_saturated, f_total,
                 panel, held, evt, i, last, ctrlVars, mlog, mprev, mcall>>

\* Mutant of KeyR: the controller is not reset.
KeyRKeepsController ==
  /\ pc = "frame"
  /\ running
  /\ ~is_editing(panel)
  /\ state' = reset_state
  /\ t' = 0
  /\ metrics' = MetricsReset(metrics)
  /\ call' = [NoCall EXCEPT !.op = "reset", !.before = ctrl]
  /\ hist' = HistEmpty
  /\ last' = NoSubStep
  /\ mcall' = NoUpdate
  /\ mprev' = MetricsInit
  /\ UNCHANGED <<paused, show_history, friction_on, key_force, ref_x, ref_theta,
                 running, u_raw, u, is_saturated, f_total, panel, held, evt, pc, i,
                 ctrl, ctrlB, u_rawB, mlog>>

\* main.py 119-120, 125, 128-133: KEYDOWN R, when the panel does not consume it
KeyR ==
  /\ pc = "frame"
  /\ running
  /\ ~is_editing(panel)
  /\ state' = reset_state
  /\ t' = 0
  /\ metrics' = MetricsReset(metrics)
  /\ ctrl' = ControllerReset(ctrl)
  /\ hist' = HistEmpty
  /\ last' = NoSubStep
  /\ call' = [NoCall EXCEPT !.op = "reset", !.before = ctrl]
  /\ mcall' = NoUpdate
  /\ mprev' = MetricsInit
  /\ UNCHANGED <<paused, show_history, friction_on, key_force, ref_x, ref_theta,
                 running, u_raw, u, is_saturated, f_total, panel, held, evt, pc, i,
                 ctrlB, u_rawB, mlog>>

\* main.py 119-120, 125, 134-135: KEYDOWN SPACE, when the panel does not consume it
KeySpace ==
  /\ pc = "frame"
  /\ running
  /\ ~is_editing(panel)
  /\ paused' = ~paused
  /\ UNCHANGED <<state, t, show_history, friction_on, key_force, ref_x, ref_theta,
                 running, ctrl, metrics, hist, u_raw, u, is_saturated, f_total,
                 panel, held, evt, pc, i, last, ctrlB, u_rawB, call, mlog, mprev, mcall>>

Next == FrameBegin \/ SubStep \/ FrameEnd \/ KeyR \/ KeySpace

\* The main loop from construction, with the keys and the mouse held as they
\* were at the start.
Spec == Init /\ [][Next]_vars

(* ------------------------------------------------------------------ *)
(* SpecHist: the main loop with nothing held down, over a horizon long  *)
(* enough to fill the history buffers, with resets and pauses.          *)
(* ------------------------------------------------------------------ *)
InitHist == Init /\ held = NoKeys

HistFrameBegin == FrameBeginUpTo(MaxHistT) /\ UNCHANGED evt

NextHist == HistFrameBegin \/ SubStep \/ FrameEnd \/ KeyR \/ KeySpace

SpecHist == InitHist /\ [][NextHist]_vars

(* ------------------------------------------------------------------ *)
(* SpecUI: the main loop with its event loop: key presses, clicks and   *)
(* mouse motion go through ParameterPanel.handle_event first, and reach *)
(* the hotkeys of main.py only when the panel does not consume them.    *)
(* ------------------------------------------------------------------ *)
\* the keys held down and the mouse, in the runs of SpecUI
UIHeld ==
  { [NoKeys EXCEPT !.right = TRUE, !.q = TRUE, !.w = TRUE, !.mleft = TRUE,
                   !.mx = W - 1],
    [NoKeys EXCEPT !.left = TRUE, !.a = TRUE, !.s = TRUE, !.mright = TRUE,
                   !.mx = x_min_px] }

\* the key presses of the runs of SpecUI
UIKeys ==
  { KeyDown("K_r", "r", FALSE), KeyDown("K_SPACE", " ", FALSE),
    KeyDown("K_h", "h", FALSE), KeyDown("K_c", "c", FALSE),
    KeyDown("K_f", "f", FALSE), KeyDown("K_ESCAPE", "", FALSE),
    KeyDown("K_RETURN", "", FALSE), KeyDown("K_BACKSPACE", "", FALSE),
    KeyDown("K_TAB", "", FALSE), KeyDown("K_TAB", "", TRUE),
    KeyDown("K_7", "7", FALSE), KeyDown("K_MINUS", "-", FALSE),
    KeyDown("K_x", "x", FALSE) }

\* the mouse events of the runs of SpecUI: a click in the input box of k_p and
\* of k_i, at the right end of the track of k_d, on the panel's title and
\* outside the panel; the release; a motion to the left end of the tracks
UIMouse ==
  { MouseEvent("MOUSEBUTTONDOWN", 1, 350, 705),
    MouseEvent("MOUSEBUTTONDOWN", 1, 350, 733),
    MouseEvent("MOUSEBUTTONDOWN", 1, 337, 762),
    MouseEvent("MOUSEBUTTONDOWN", 1, 20, 670),
    MouseEvent("MOUSEBUTTONDOWN", 1, 800, 100),
    MouseEvent("MOUSEBUTTONUP", 1, 337, 762),
    MouseEvent("MOUSEMOTION", 0, 58, 762) }

UIEvents == UIKeys \cup UIMouse \cup { [NoEvent EXCEPT !.type = "QUIT"] }

InitUI ==
  /\ state = reset_state
  /\ friction_on = TRUE
  /\ f_total = 0
  /\ pc = "frame"
  /\ i = 0
  /\ last = NoSubStep
  /\ held \in UIHeld
  /\ InitLoopRest
  /\ InitCtrl
  /\ InitMetricsLog

IsKey(ev, key) == ev.type = "KEYDOWN" /\ ev.key = key

\* main.py 121-142: what the event loop does with an event the panel did not
\* consume; p and c are the panel and the controller handle_event left
Dispatch(ev, p, c) ==
  /\ panel' = p
  /\ running' = (running /\ ev.type # "QUIT" /\ ~IsKey(ev, "K_ESCAPE"))
  /\ paused' = IF IsKey(ev, "K_SPACE") THEN ~paused ELSE paused
  /\ show_history' = IF IsKey(ev, "K_h") THEN ~show_history ELSE show_history
  /\ ref_x' = IF IsKey(ev, "K_c") THEN 0 ELSE ref_x
  /\ ref_theta' = IF IsKey(ev, "K_c") THEN 0 ELSE ref_theta
  /\ friction_on' = IF IsKey(ev, "K_f") THEN ~friction_on ELSE friction_on
  /\ IF IsKey(ev, "K_r")
     THEN /\ state' = reset_state
          /\ t' = 0
          /\ metrics' = MetricsReset(metrics)
          /\ ctrl' = ControllerReset(c)
          /\ hist' = HistEmpty
          /\ last' = NoSubStep
          /\ call' = [NoCall EXCEPT !.op = "reset", !.before = c]
          /\ mcall' = NoUpdate
          /\ mprev' = MetricsInit
     ELSE /\ ctrl' = c
          /\ UNCHANGED <<state, t, metrics, hist, last, call, mcall, mprev>>
  /\ UNCHANGED pc

\* main.py 119-120: the panel consumed the event, the loop goes on to the next
Consume(p, c) ==
  /\ panel' = p
  /\ ctrl' = c
  /\ UNCHANGED <<state, t, paused, show_history, friction_on, ref_x, ref_theta,
                 running, metrics, hist, last, call, mcall, mprev, pc>>

\* handle_event raised: the exception leaves main() and the program ends
Crash(p, c) ==
  /\ panel' = p
  /\ ctrl' = c
  /\ pc' = "crashed"
  /\ UNCHANGED <<state, t, paused, show_history, friction_on, ref_x, ref_theta,
                 running, metrics, hist, last, call, mcall, mprev>>

\* the event types a character into the edit text
Types(ev) ==
  ev.type = "KEYDOWN" /\ ev.unicode # ""
    /\ (IsDigit(ev.unicode) \/ ev.unicode \in {".", "-"})

\* main.py 117-142: one event of the event loop
HandleEvent(ev) ==
  /\ pc = "frame"
  /\ running
  /\ evt.n < MaxUISteps
  /\ (is_editing(panel) /\ Types(ev)) => Len(panel.edit_text) < MaxEditLen
  /\ evt' = UIStep(evt.n + 1, "event", ev, is_editing(panel),
                   handle_event(panel, ctrl, ev).consumed,
                   handle_event(panel, ctrl, ev).raised)
  /\ IF evt'.raised
     THEN Crash(handle_event(panel, ctrl, ev).panel, handle_event(panel, ctrl, ev).ctrl)
     ELSE IF evt'.consumed
     THEN Consume(handle_event(panel, ctrl, ev).panel,
                  handle_event(panel, ctrl, ev).ctrl)
     ELSE Dispatch(ev, handle_event(panel, ctrl, ev).panel,
                   handle_event(panel, ctrl, ev).ctrl)
  /\ UNCHANGED <<key_force, u_raw, u, is_saturated, f_total, held, i, ctrlB,
                 u_rawB, mlog>>

UIEvent == \E ev \in UIEvents : HandleEvent(ev)

\* main.py 144-194: the frame's poll and forces, after the frame's events
UIFrame ==
  /\ evt.n < MaxUISteps
  /\ FrameBeginUpTo(MaxUIT)
  /\ evt' = UIStep(evt.n + 1, "frame", NoEvent, is_editing(panel), FALSE, FALSE)

NextUI == UIEvent \/ UIFrame \/ SubStep \/ FrameEnd

SpecUI == InitUI /\ [][NextUI]_vars

(* ------------------------------------------------------------------ *)
(* SpecStep: the sub-step of main.py 196-215 applied, up to MaxSteps   *)
(* times in a row, to states of the track and total forces drawn from  *)
(* bounded sets.                                                       *)
(* ------------------------------------------------------------------ *)
\* cart positions: mid-track, and at, within eps of, and near both walls
StepX ==
  { 0, x_min_m, x_min_m + eps, x_min_m + 2 * eps, x_min_m + 20000,
    x_max_m, x_max_m - eps, x_max_m - 2 * eps, x_max_m - 20000 }

\* cart velocities, um/s
StepXDot == { -6000000, -180000, 0, 180000, 6000000 }

\* pole angles: the start angle, and just inside both ends of the wrap range
StepTheta == { 150000, PI - 1, PI - 20000, -PI + 1, -PI + 20000 }

\* pole angular velocities, urad/s
StepThetaDot == { -5000000, -240, 0, 240, 5000000 }

\* total forces, uN
StepForce == { -68000000, -1, 0, 1, 68000000 }

InitStep ==
  /\ state \in StepX \X StepXDot \X StepTheta \X StepThetaDot
  /\ f_total \in StepForce
  /\ friction_on \in BOOLEAN
  /\ pc = "sub"
  /\ i = 0
  /\ last = NoSubStep
  /\ held = NoKeys
  /\ InitLoopRest
  /\ InitCtrl
  /\ InitMetricsLog

StepOnly ==
  /\ pc = "sub"
  /\ i < MaxSteps
  /\ last' = SubStepTrace(state, f_total, friction_on)
  /\ state' = last'.post
  /\ i' = i + 1
  /\ UNCHANGED <<t, friction_on, f_total, pc, loopRest, ctrlVars, metricsVars>>

NextStep == StepOnly

SpecStep == InitStep /\ [][NextStep]_vars

(* ------------------------------------------------------------------ *)
(* SpecCtrl: two Controller instances with the same gains, driven by   *)
(* the same calls and resets; the calls of the second differ in theta, *)
(* theta_dot and ref_theta only.  Inputs are drawn from bounded sets.  *)
(* ------------------------------------------------------------------ *)
\* <<k_p, k_i, k_d>> as set through the panel (gui.py setattr)
CtrlGains == { <<5, 2, 3>>, <<10, 0, 1>>, <<0, 10, 10>> }

\* <<x, x_dot, ref_x>> in um, um/s, um
CtrlInputs ==
  { <<1000000, -2000000, 0>>, <<-3000000, 500000, 1000000>>,
    <<4000000, -6000000, -4000000>> }

\* call times, ticks
CtrlTimes == { 0, 120 }

\* <<theta, theta_dot, ref_theta>> of the first and of the second instance
CtrlAngles ==
  { << <<150000, 0, 0>>, <<-2000000, 3000000, 1000000>> >>,
    << <<3000000, -1000000, -500000>>, <<150000, 0, 8727>> >> }

WithGains(c, gs) == [c EXCEPT !.k_p = gs[1], !.k_i = gs[2], !.k_d = gs[3]]

InitCtrlSpec ==
  /\ state = reset_state
  /\ friction_on = TRUE
  /\ f_total = 0
  /\ pc = "frame"
  /\ i = 0
  /\ last = NoSubStep
  /\ held = NoKeys
  /\ InitLoopRest
  /\ InitMetricsLog
  /\ \E gs \in CtrlGains :
       /\ ctrl = WithGains(ControllerInit, gs)
       /\ ctrlB = WithGains(ControllerInit, gs)
  /\ u_rawB = 0
  /\ call = NoCall

\* controller(state, t, ref_x, ref_theta) on both instances
CtrlCall ==
  /\ call.n < MaxCalls
  /\ \E inp \in CtrlInputs, tt \in CtrlTimes, ang \in CtrlAngles :
       LET stA == <<inp[1], inp[2], ang[1][1], ang[1][2]>>
           stB == <<inp[1], inp[2], ang[2][1], ang[2][2]>>
       IN  /\ ctrl' = ControllerCall(ctrl, stA, tt, inp[3], ang[1][3]).c
           /\ u_raw' = ControllerCall(ctrl, stA, tt, inp[3], ang[1][3]).u
           /\ ctrlB' = ControllerCall(ctrlB, stB, tt, inp[3], ang[2][3]).c
           /\ u_rawB' = ControllerCall(ctrlB, stB, tt, inp[3], ang[2][3]).u
           /\ call' = [op |-> "call", n |-> call.n + 1, before |-> ctrl, st |-> stA,
                       tt |-> tt, rx |-> inp[3], rth |-> ang[1][3], stB |-> stB,
                       rthB |-> ang[2][3], first |-> (call.op = "reset"),
                       dirty |-> call.dirty, paused |-> FALSE]
  /\ UNCHANGED <<state, t, paused, show_history, friction_on, key_force, ref_x,
                 ref_theta, running, hist, u, is_saturated, f_total, panel, held, evt,
                 pc, i, last, metricsVars>>

\* reset_controller() on both instances
CtrlReset ==
  /\ call.op = "call"
  /\ ctrl' = ControllerReset(ctrl)
  /\ ctrlB' = ControllerReset(ctrlB)
  /\ call' = [call EXCEPT !.op = "reset", !.before = ctrl, !.first = FALSE,
                          !.dirty = ctrl.x_err_i]
  /\ UNCHANGED <<state, t, paused, show_history, friction_on, key_force, ref_x,
                 ref_theta, running, hist, u_raw, u, is_saturated, f_total, panel,
                 held, evt, pc, i, last, u_rawB, metricsVars>>

NextCtrl == CtrlCall \/ CtrlReset

SpecCtrl == InitCtrlSpec /\ [][NextCtrl]_vars

(* ------------------------------------------------------------------ *)
(* SpecMetrics: one Metrics instance under any sequence of updates,    *)
(* with non-decreasing t, and resets.  Inputs from bounded sets.       *)
(* ------------------------------------------------------------------ *)
\* arguments of Metrics.update other than t
MSamples ==
  { \* in band: |x_err| = 0.01 m, |theta_err| = 0.02 rad
    [st |-> <<10000, 0, 20000, 0>>, force |-> 0, rx |-> 0, rth |-> 0, h |-> 1],
    \* in band across the wrap: theta - ref_theta = -6.26 rad wraps to 0.023 rad
    [st |-> <<1000000, 0, -3130000, 0>>, force |-> 18000000, rx |-> 1030000,
     rth |-> 3130000, h |-> 2],
    \* out of band
    [st |-> <<-2000000, 0, 150000, 0>>, force |-> -50000000, rx |-> 0, rth |-> 0,
     h |-> 1] }

\* steps of t between updates, ticks (0.42 s, 0.6 s, 1.0 s)
MTimeSteps == { 100, 144, 240 }

InitMetricsSpec ==
  /\ state = reset_state
  /\ friction_on = TRUE
  /\ f_total = 0
  /\ pc = "frame"
  /\ i = 0
  /\ last = NoSubStep
  /\ held = NoKeys
  /\ InitLoopRest
  /\ InitCtrl
  /\ InitMetricsLog

\* metrics.update(state, t, force, ref_x, ref_theta, dt)
MUpdate ==
  /\ Len(mlog) < MaxUpdates
  /\ \E smp \in MSamples, inc \in MTimeSteps :
       /\ t' = t + inc
       /\ metrics' = MetricsUpdate(metrics, smp.st, t + inc, smp.force, smp.rx,
                                   smp.rth, smp.h)
       /\ mlog' = Append(mlog, [st |-> smp.st, tt |-> t + inc, force |-> smp.force,
                                rx |-> smp.rx, rth |-> smp.rth, h |-> smp.h])
       /\ mcall' = [st |-> smp.st, tt |-> t + inc, force |-> smp.force,
                    rx |-> smp.rx, rth |-> smp.rth, h |-> smp.h]
  /\ mprev' = metrics
  /\ UNCHANGED <<state, paused, show_history, friction_on, key_force, ref_x,
                 ref_theta, running, hist, u_raw, u, is_saturated, f_total, panel,
                 held, evt, pc, i, last, ctrlVars>>

\* metrics.reset(), with the clock set back as main.py does
MReset ==
  /\ mlog # <<>>
  /\ metrics' = MetricsReset(metrics)
  /\ t' = 0
  /\ mlog' = <<>>
  /\ mcall' = NoUpdate
  /\ mprev' = MetricsInit
  /\ UNCHANGED <<state, paused, show_history, friction_on, key_force, ref_x,
                 ref_theta, running, hist, u_raw, u, is_saturated, f_total, panel,
                 held, evt, pc, i, last, ctrlVars>>

NextMetrics == MUpdate \/ MReset

SpecMetrics == InitMetricsSpec /\ [][NextMetrics]_vars

(* ------------------------------------------------------------------ *)
(* SpecEnergy: rk4_step applied MaxEnergySteps times from the start    *)
(* state, unconstrained, with zero damping and zero force.             *)
(* ------------------------------------------------------------------ *)
InitEnergy ==
  /\ state = reset_state
  /\ friction_on = FALSE
  /\ f_total = 0
  /\ pc = "energy"
  /\ i = 0
  /\ last = NoSubStep
  /\ held = NoKeys
  /\ InitLoopRest
  /\ InitCtrl
  /\ InitMetricsLog

\* state = rk4_step(state, 0.0, P.dt, False, 0.0, 0.0)
EnergyStep ==
  /\ pc = "energy"
  /\ i < MaxEnergySteps
  /\ state' = rk4_step(state, 0, dt, FALSE, 0, 0)
  /\ i' = i + 1
  /\ UNCHANGED <<t, friction_on, f_total, pc, last, loopRest, ctrlVars, metricsVars>>

NextEnergy == EnergyStep

SpecEnergy == InitEnergy /\ [][NextEnergy]_vars

(* ------------------------------------------------------------------ *)
(* Properties                                                         *)
(* ------------------------------------------------------------------ *)

\* C1: after every rk4_step the stored pole angle lies in the half-open interval
\* (-pi, pi]: strictly greater than -pi and at most pi.
C1_ThetaHalfOpen == last.acted => (state[3] > -PI /\ state[3] <= PI)

\* What wrap_angle does keep: the angle after rk4_step is in [-pi, pi], and the
\* end -pi is the image of pi.
ThetaClosed == last.acted => (state[3] >= -PI /\ state[3] <= PI)

\* A sub-step carried the pole across the hanging position, so that wrap_angle
\* folded the angle from just below +pi to the negative side.
ThetaWrapped ==
  /\ last.acted
  /\ last.pre[3] > PI - 100000
  /\ last.pre[4] > 0
  /\ state[3] < -PI + 100000

\* C2: at the end of every sub-step the cart position is within the track,
\* x_min <= x <= x_max.
C2_XInTrack == x_min_m <= state[1] /\ state[1] <= x_max_m

\* C2 witness: the integrator left the track on the right and the safety clamp
\* brought the cart back to x_max.
C2_ClampedBack ==
  /\ last.acted
  /\ last.raw[1] > x_max_m
  /\ state[1] = x_max_m

\* C3: a sub-step that begins constrained at the upper bound (x >= x_max - eps,
\* total force > 0) ends with x = x_max exactly and x_dot = 0.
C3_ConstraintIdempotence ==
  (last.acted /\ last.constrained /\ last.start[1] >= x_max_m - eps /\ last.force > 0)
    => (state[1] = x_max_m /\ state[2] = 0)

\* in_band of a logged update
InBandAt(e) == InBand(e.st[1] - e.rx, wrap_angle(e.st[3] - e.rth))

\* update k opens an unbroken run of in-band updates
RunStart(log, k) == InBandAt(log[k]) /\ (k = 1 \/ ~InBandAt(log[k - 1]))

\* the run opened at k reaches settle_hold_time: a later update j of the same
\* run has t_j - t_k >= settle_hold_time
RunHolds(log, k) ==
  \E j \in (k + 1)..Len(log) :
    /\ \A q \in k..j : InBandAt(log[q])
    /\ log[j].tt - log[k].tt >= settle_hold_time

\* starts of the runs that reached the hold time
SettledRuns(log) == { k \in 1..Len(log) : RunStart(log, k) /\ RunHolds(log, k) }

\* C4: settle_time is null while no unbroken in-band run has reached
\* settle_hold_time, and otherwise it is the time of the first update of the
\* earliest such run; a run broken before the hold time never supplies it.
C4_SettleTimeIsRunStart ==
  IF SettledRuns(mlog) = {}
  THEN metrics.settle_time = None
  ELSE LET k == CHOOSE a \in SettledRuns(mlog) : \A b \in SettledRuns(mlog) : a <= b
       IN  metrics.settle_time = Some(mlog[k].tt)

\* C4 witness: the settling-hysteresis case: in band, out of band before the hold
\* time, in band again and held; settle_time is the start of the second run.
C4_SettledAfterBrokenRun ==
  /\ metrics.settle_time # None
  /\ \E a, b \in 1..Len(mlog) :
       /\ a < b
       /\ InBandAt(mlog[a])
       /\ ~InBandAt(mlog[b])
       /\ mlog[b].tt < metrics.settle_time[1]

\* the largest element of a finite set of naturals, 0 if it is empty
MaxOf(S) == IF S = {} THEN 0 ELSE CHOOSE a \in S : \A b \in S : a >= b

\* C6: max_abs_theta and max_abs_x_dev equal the maximum of |wrap(theta -
\* ref_theta)| and of |x - ref_x| over the updates since the last reset (0 if
\* none), and no update decreases them.
C6_MaximaAreRunningMax ==
  /\ metrics.max_abs_theta
       = MaxOf({ Abs(wrap_angle(mlog[k].st[3] - mlog[k].rth)) : k \in 1..Len(mlog) })
  /\ metrics.max_abs_x_dev
       = MaxOf({ Abs(mlog[k].st[1] - mlog[k].rx) : k \in 1..Len(mlog) })
  /\ metrics.max_abs_theta >= mprev.max_abs_theta
  /\ metrics.max_abs_x_dev >= mprev.max_abs_x_dev

\* C6 witness: the maxima were kept over a later, smaller update, and one of the
\* updates had theta - ref_theta outside the wrap range.
C6_MaxKept ==
  /\ Len(mlog) >= 2
  /\ metrics.max_abs_theta > Abs(wrap_angle(mlog[Len(mlog)].st[3] - mlog[Len(mlog)].rth))
  /\ metrics.max_abs_x_dev > Abs(mlog[Len(mlog)].st[1] - mlog[Len(mlog)].rx)
  /\ \E k \in 1..Len(mlog) : Abs(mlog[k].st[3] - mlog[k].rth) > PI

\* sum of |force_i| * dt_i over a log
RECURSIVE ImpulseSum(_)
ImpulseSum(log) ==
  IF log = <<>> THEN 0
  ELSE RDiv(Abs(log[1].force) * log[1].h, Hz) + ImpulseSum(Tail(log))

\* C7: energy_abs_impulse equals the sum of |force_i| * dt_i over the updates
\* since the last reset, no update decreases it, and it keeps accumulating after
\* settle_time has been recorded.
C7_ImpulseIsSum ==
  /\ metrics.energy_abs_impulse = ImpulseSum(mlog)
  /\ metrics.energy_abs_impulse >= mprev.energy_abs_impulse

\* C7 witness: an update made after settle_time was recorded raised the impulse.
C7_AccumulatesAfterSettle ==
  /\ mprev.settle_time # None
  /\ metrics.energy_abs_impulse > mprev.energy_abs_impulse

\* C8: the applied controller force is within [-max_force, max_force], equals
\* the raw force when that is within the range, and the saturation flag is true
\* exactly when the raw force is outside the range, i.e. exactly when u # u_raw.
C8_ForceClamp ==
  /\ -max_force <= u /\ u <= max_force
  /\ (Abs(u_raw) <= max_force) => (u = u_raw)
  /\ is_saturated <=> (u_raw < -max_force \/ u_raw > max_force)
  /\ is_saturated <=> (u # u_raw)

\* C8 witness: a frame whose raw controller force was below -max_force.
C8_SaturatedLow == is_saturated /\ u_raw < -max_force /\ u = -max_force

\* C9: a controller call sets prev_t to t, adds (ref_x - x) * (t - prev_t) to the
\* integral before forming the output, and returns k_p (ref_x - x) + k_i integral
\* - k_d x_dot, unclamped; prev_t is 0 after construction or reset.
C9_ControlLaw ==
  (call.op = "call") =>
    LET b       == call.before
        x_err   == call.rx - call.st[1]
        integ   == b.x_err_i + RDiv(x_err * (call.tt - b.prev_t), Hz)
    IN  /\ ctrl.prev_t = call.tt
        /\ ctrl.x_err_i = integ
        /\ u_raw = ctrl.k_p * x_err + ctrl.k_i * integ - ctrl.k_d * call.st[2]
        /\ <<ctrl.k_p, ctrl.k_i, ctrl.k_d>> = <<b.k_p, b.k_i, b.k_d>>
        /\ (call.first \/ call.n = 1) => (b.prev_t = 0 /\ b.x_err_i = 0)

\* C9 witness: a call with a nonzero dt on a nonzero integral that changed the
\* integral and returned a force beyond the actuator limit.
C9_UnclampedOutput ==
  /\ call.op = "call"
  /\ call.before.x_err_i # 0
  /\ call.tt # call.before.prev_t
  /\ ctrl.x_err_i # call.before.x_err_i
  /\ Abs(u_raw) > max_force

\* C5: the first call after a reset returns what a freshly constructed
\* controller with the same gains returns on its first call with the same
\* inputs, and leaves the same integral and prev_t.
C5_ResetIsFresh ==
  (call.op = "call" /\ call.first) =>
    LET fresh == ControllerCall(WithGains(ControllerInit, <<ctrl.k_p, ctrl.k_i, ctrl.k_d>>),
                                call.st, call.tt, call.rx, call.rth)
    IN  /\ u_raw = fresh.u
        /\ ctrl.x_err_i = fresh.c.x_err_i
        /\ ctrl.prev_t = fresh.c.prev_t

\* C5 witness: a first call after a reset that discarded a nonzero integral and
\* a nonzero prev_t.
C5_CalledAfterDirtyReset ==
  /\ call.op = "call"
  /\ call.first
  /\ call.dirty # 0
  /\ call.tt # 0
  /\ u_raw # 0

\* C10: two controllers with equal gains, integral and prev_t, called with the
\* same x, x_dot, t and ref_x but different theta, theta_dot and ref_theta,
\* return the same force and end in the same state.
C10_RefThetaIgnored == ctrl = ctrlB /\ u_raw = u_rawB

\* C10 witness: the two instances were called with different ref_theta, theta
\* and theta_dot and returned a nonzero force.
C10_CalledWithDifferentAngles ==
  /\ call.op = "call"
  /\ call.rth # call.rthB
  /\ call.st[3] # call.stB[3]
  /\ call.st[4] # call.stB[4]
  /\ u_raw # 0

\* C11: with zero damping and zero force, from (0, 0, 0.15, 0), after each of
\* the rk4_step calls mechanical_energy(state) is within 1e-3 relative of its
\* initial value.
C11_EnergyConserved ==
  (pc = "energy") =>
    Abs(mechanical_energy(state) - mechanical_energy(reset_state))
      <= RDiv(Abs(mechanical_energy(reset_state)), 1000)

\* The same with the tolerance widened a thousandfold, to 100 % of the initial
\* value, which is far above the rounding of the grid.
EnergyWithinInitial ==
  (pc = "energy") =>
    Abs(mechanical_energy(state) - mechanical_energy(reset_state))
      <= Abs(mechanical_energy(reset_state))

\* the mouse buttons as main.py 172-178 gates them
MouseDown(b) == b /\ ~(is_dragging(panel) \/ is_editing(panel))

\* C12 (as stated): in an unpaused frame the controller is invoked for each
\* sub-step, on the state and the time at the start of that sub-step.
C12_ControllerPerSubStep ==
  (pc = "sub" /\ i >= 1) =>
    (call.st = last.start /\ call.tt = t - dt /\ ctrl.prev_t = t - dt)

\* C12 (amended): the controller is invoked once per frame, on the state and the
\* time at the start of the frame; the raw force, the clamped force, the
\* saturation flag and the total force obtained there are those of every
\* sub-step of the frame.
C12_ControllerPerFrame ==
  (pc = "sub") =>
    /\ call.op = "call"
    /\ call.tt = t - i * dt
    /\ ctrl.prev_t = call.tt
    /\ (i = 0) => (call.st = state)
    /\ (i >= 1) => (last.force = f_total)
    /\ (i = 1) => (last.start = call.st)
    /\ ctrl = ControllerCall(call.before, call.st, call.tt, ref_x, ref_theta).c
    /\ u_raw = ControllerCall(call.before, call.st, call.tt, ref_x, ref_theta).u
    /\ u = ClampForce(u_raw)
    /\ is_saturated = Saturated(u_raw)
    /\ f_total = u + key_force
                 + mouse_force(cart_px_from_x(call.st[1]), held.mx,
                               MouseDown(held.mleft), MouseDown(held.mright))

\* C12 witness: the second sub-step of a frame started from a state other than
\* the one the controller was invoked on, and integrated with the frame's force.
C12_SecondSubStepSameForce ==
  /\ pc = "sub"
  /\ i = 2
  /\ last.start # call.st
  /\ last.force = f_total
  /\ u_raw # 0
  /\ ~is_saturated

\* C13 (as stated): Metrics.update comes before the time is advanced, so the
\* time it is passed is the simulated time before the sub-step's dt is added.
C13_MetricsBeforeTime ==
  (pc = "sub" /\ i >= 1) => (mcall.tt = t - dt)

\* C13 (amended): a sub-step takes the constraint flag from the combined force,
\* pre-clamps, integrates, post-clamps, advances the time by dt and then calls
\* Metrics.update, with the state after the post-clamp and the time after dt
\* has been added.
C13_TimeBeforeMetrics ==
  (pc = "sub" /\ i >= 1) =>
    /\ last.force = f_total
    /\ last.constrained = constraint_flag(last.start, f_total)
    /\ last.pre = PreClamp(last.start, last.constrained)
    /\ last.raw = rk4_step(last.pre, f_total, dt, last.constrained,
                           CartDamp(friction_on), PoleDamp(friction_on))
    /\ state = SafetyClamp(last.raw)
    /\ mcall = [st |-> state, tt |-> t, force |-> f_total, rx |-> ref_x,
                rth |-> ref_theta, h |-> dt]
    /\ metrics = MetricsUpdate(mprev, state, t, f_total, ref_x, ref_theta, dt)
    /\ t = call.tt + i * dt

\* C13 witness: the second sub-step of a frame, in the constrained regime; its
\* Metrics.update changed the metrics and was passed the advanced time.
C13_UpdatedAtAdvancedTime ==
  /\ pc = "sub"
  /\ i = 2
  /\ last.constrained
  /\ metrics # mprev
  /\ mcall.tt = t
  /\ t > dt

\* The regime of the latest sub-step against the position it started from and
\* the force it was given.
ConstraintFlagCases ==
  last.acted =>
    /\ last.constrained <=>
         \/ (last.start[1] <= x_min_m + eps /\ last.force < 0)
         \/ (last.start[1] >= x_max_m - eps /\ last.force > 0)
    /\ (last.force = 0) => ~last.constrained
    /\ (last.start[1] <= x_min_m + eps /\ last.start[1] < x_max_m - eps
          /\ last.force > 0) => ~last.constrained
    /\ (last.start[1] >= x_max_m - eps /\ last.start[1] > x_min_m + eps
          /\ last.force < 0) => ~last.constrained
    /\ (x_min_m + eps < last.start[1] /\ last.start[1] < x_max_m - eps)
         => ~last.constrained

\* C14: constraint_flag is true exactly when (x <= x_min + eps and the total
\* force < 0) or (x >= x_max - eps and the total force > 0): false for a zero
\* force, for a force pointing away from the wall, and away from the walls; the
\* force is the sum of the clamped controller, mouse and keyboard forces.
C14_ConstraintFlag ==
  /\ ConstraintFlagCases
  /\ (pc = "sub" /\ i >= 1) =>
       last.force = ClampForce(u_raw) + key_force
                    + mouse_force(cart_px_from_x(call.st[1]), held.mx,
                                  MouseDown(held.mleft), MouseDown(held.mright))

\* C14 witness: a sub-step that started at the right wall with the total force
\* pointing away from it, the clamped controller force outweighing the mouse
\* and the keyboard.
C14_AtWallPushedAway ==
  /\ pc = "sub"
  /\ i >= 1
  /\ last.start[1] >= x_max_m - eps
  /\ last.force < 0
  /\ ~last.constrained
  /\ u < 0
  /\ key_force > 0
  /\ held.mleft

\* C15: in every sub-step where constraint_flag is true, the state handed to
\* rk4_step has x equal to the bound the cart is at (x_min on the left, x_max on
\* the right) and x_dot = 0.
C15_PreClampAtBound ==
  (last.acted /\ last.constrained) =>
    /\ last.pre[2] = 0
    /\ (last.start[1] <= x_min_m + eps) => (last.pre[1] = x_min_m)
    /\ (last.start[1] >= x_max_m - eps) => (last.pre[1] = x_max_m)

\* C16: the post-integration clamp changes the state only when x is outside the
\* track: below x_min it sets x = x_min and zeroes x_dot only if x_dot < 0, above
\* x_max it sets x = x_max and zeroes x_dot only if x_dot > 0, in between it
\* leaves x and x_dot alone; theta and theta_dot are never changed.
C16_PostClamp ==
  last.acted =>
    /\ state[3] = last.raw[3]
    /\ state[4] = last.raw[4]
    /\ (last.raw[1] < x_min_m) =>
         /\ state[1] = x_min_m
         /\ state[2] = (IF last.raw[2] < 0 THEN 0 ELSE last.raw[2])
    /\ (last.raw[1] > x_max_m) =>
         /\ state[1] = x_max_m
         /\ state[2] = (IF last.raw[2] > 0 THEN 0 ELSE last.raw[2])
    /\ (x_min_m <= last.raw[1] /\ last.raw[1] <= x_max_m) =>
         /\ state[1] = last.raw[1]
         /\ state[2] = last.raw[2]

\* C16 witness: the integrator left the track on the left while the velocity had
\* already turned inward; x was set to x_min and the velocity was kept.
C16_InwardVelocityKept ==
  /\ last.acted
  /\ last.raw[1] < x_min_m
  /\ last.raw[2] > 0
  /\ state[1] = x_min_m
  /\ state[2] = last.raw[2]

\* C17: once settle_time is non-null no Metrics.update changes settle_time or
\* the band-entry marker, whatever the sample and the time; only Metrics.reset
\* sets them back to null; the maxima and the impulse keep being updated.
C17_SettleFrozen ==
  /\ (mlog # <<>> /\ mprev.settle_time # None) =>
       /\ metrics.settle_time = mprev.settle_time
       /\ metrics.in_band_since = mprev.in_band_since
       /\ metrics.energy_abs_impulse
            = mprev.energy_abs_impulse
              + RDiv(Abs(mlog[Len(mlog)].force) * mlog[Len(mlog)].h, Hz)
       /\ metrics.max_abs_x_dev
            = Max(mprev.max_abs_x_dev,
                  Abs(mlog[Len(mlog)].st[1] - mlog[Len(mlog)].rx))
       /\ metrics.max_abs_theta
            = Max(mprev.max_abs_theta,
                  Abs(wrap_angle(mlog[Len(mlog)].st[3] - mlog[Len(mlog)].rth)))
  /\ (mlog = <<>>) =>
       (metrics.settle_time = None /\ metrics.in_band_since = None)

\* C17 witness: an out-of-band update made after settle_time was recorded left
\* settle_time and the marker alone and raised the impulse and a maximum.
C17_OutOfBandAfterSettle ==
  /\ mlog # <<>>
  /\ mprev.settle_time # None
  /\ ~InBandAt(mlog[Len(mlog)])
  /\ metrics.settle_time = mprev.settle_time
  /\ metrics.in_band_since # None
  /\ metrics.energy_abs_impulse > mprev.energy_abs_impulse
  /\ metrics.max_abs_x_dev > mprev.max_abs_x_dev

\* the controller's dt of the invocation recorded in c
CallDt(c) == c.tt - c.before.prev_t

\* a step in which the controller is invoked by a frame
CallStep ==
  /\ pc = "frame"
  /\ call'.op = "call"
  /\ paused' = paused
  /\ <<ctrl, call, u_raw>>' # <<ctrl, call, u_raw>>

\* the dt of the invocation made in a step, by what preceded it
CallStepDt ==
  /\ CallDt(call') >= 0
  /\ CallDt(call') = (IF call.op = "init" \/ call.op = "reset" \/ call.paused
                      THEN 0 ELSE substeps * dt)

\* the R key leaves the time and the controller at their initial values
ResetStepClears == t' = 0 /\ ctrl'.prev_t = 0 /\ ctrl'.x_err_i = 0

\* C18: the controller is reset by the event that sets the time back to 0, so
\* prev_t <= t throughout and the controller's dt is never negative at an
\* invocation: 0 on the first call after start or reset and on a call that
\* follows a paused frame, substeps * dt otherwise.
C18_ControllerDt ==
  /\ [](ctrl.prev_t <= t)
  /\ [][(CallStep => CallStepDt) /\ ((call'.op = "reset") => ResetStepClears)]_vars

\* C18 witness: a frame that followed a paused frame at t > 0; its controller
\* invocation had dt = 0 and the frame went on to its sub-steps.
C18_CallAfterPausedFrame ==
  /\ call.op = "call"
  /\ pc = "sub"
  /\ i = 0
  /\ call.tt > 0
  /\ CallDt(call) = 0
  /\ call.before.x_err_i # 0

\* C19: a frame processed while paused runs no sub-step: the State vector, t,
\* every Metrics field and the history buffers are as before the frame, while
\* the controller is invoked and the forces are computed.
C19_PausedFrame ==
  [][ (paused /\ paused' /\ pc = "frame" /\ call'.op = "call") =>
        /\ pc' = "frame"
        /\ state' = state
        /\ t' = t
        /\ metrics' = metrics
        /\ hist' = hist
        /\ ctrl' = ControllerCall(ctrl, state, t, ref_x', ref_theta').c
        /\ u_raw' = ControllerCall(ctrl, state, t, ref_x', ref_theta').u
        /\ u' = ClampForce(u_raw')
        /\ f_total' = u' + key_force'
                      + mouse_force(cart_px_from_x(state[1]), held.mx,
                                    MouseDown(held.mleft), MouseDown(held.mright))
    ]_vars

\* C19 witness: the state after a paused frame in mid-run: the controller was
\* invoked with the run's state and returned a force, and nothing was integrated.
C19_AfterPausedFrame ==
  /\ paused
  /\ pc = "frame"
  /\ call.op = "call"
  /\ call.paused
  /\ call.tt = t
  /\ call.st = state
  /\ t > 0
  /\ u_raw # 0
  /\ f_total # 0
  /\ Len(hist.t) > 0
  /\ ctrl.prev_t = t

\* the lengths of the six history buffers
HistLens ==
  { Len(hist.t), Len(hist.x), Len(hist.x_dot), Len(hist.theta),
    Len(hist.theta_dot), Len(hist.force) }

\* buffer q2 is buffer q1 after one more sample v under the cap
Pushed(q1, q2, v) ==
  /\ Len(q2) = Min(Len(q1) + 1, history_len)
  /\ q2[Len(q2)] = v
  /\ \A k \in 1..(Len(q2) - 1) :
       q2[k] = (IF Len(q1) = history_len THEN q1[k + 1] ELSE q1[k])

\* the end of an unpaused frame pushes one sample to each buffer
HistFrameEndStep ==
  (pc = "sub" /\ pc' = "frame") =>
    /\ Pushed(hist.t, hist'.t, t)
    /\ Pushed(hist.x, hist'.x, state[1])
    /\ Pushed(hist.x_dot, hist'.x_dot, state[2])
    /\ Pushed(hist.theta, hist'.theta, wrap_angle(state[3]))
    /\ Pushed(hist.theta_dot, hist'.theta_dot, state[4])
    /\ Pushed(hist.force, hist'.force, f_total)

\* no other step changes the buffers, except the reset, which empties them
HistOtherStep ==
  /\ (pc' = "sub") => (hist' = hist)
  /\ (pc = "frame" /\ pc' = "frame" /\ call'.op # "reset") => (hist' = hist)
  /\ (pc = "frame" /\ call'.op = "reset") => (hist' = HistEmpty)

\* C20: the six history buffers have the same length, at most P.history_len; it
\* grows by one per unpaused frame (not per sub-step) up to the cap, after which
\* the oldest sample is dropped; it is 0 right after a reset.
C20_HistoryBuffers ==
  /\ [](Cardinality(HistLens) = 1 /\ Len(hist.t) <= history_len)
  /\ [][HistFrameEndStep /\ HistOtherStep]_vars

\* C20 witness: the buffers are full and the oldest samples have been dropped.
C20_OldestDropped ==
  /\ Len(hist.t) = history_len
  /\ hist.t[1] > substeps * dt
  /\ hist.t[history_len] = t
  /\ pc = "frame"


(* ------------------------------------------------------------------ *)
(* C21: text-edit mode keeps key presses from the simulation           *)
(* ------------------------------------------------------------------ *)
\* the step handles a KEYDOWN event that arrives while the panel is editing
EditingKeyStep ==
  /\ evt'.n # evt.n
  /\ evt'.kind = "event"
  /\ evt'.ev.type = "KEYDOWN"
  /\ is_editing(panel)

\* the step neither resets, pauses, toggles the plots, recentres the
\* references, toggles friction nor ends the program
HotkeysIdle ==
  /\ pc' = pc
  /\ running' = running
  /\ state' = state
  /\ t' = t
  /\ metrics' = metrics
  /\ hist' = hist
  /\ ctrl'.x_err_i = ctrl.x_err_i
  /\ ctrl'.prev_t = ctrl.prev_t
  /\ paused' = paused
  /\ show_history' = show_history
  /\ ref_x' = ref_x
  /\ ref_theta' = ref_theta
  /\ friction_on' = friction_on

\* Escape only cancels the edit
EscapeCancels ==
  (evt'.ev.key = "K_ESCAPE") => (panel' = cancel_edit(panel) /\ ctrl' = ctrl)

\* the step is the poll and the forces of a frame whose events left the panel
\* editing
EditingFrameStep ==
  /\ evt'.n # evt.n
  /\ evt'.kind = "frame"
  /\ is_editing(panel)

\* no keyboard force, no mouse force (the total is the controller's clamped
\* force), references as they were
EditingFrameGated ==
  /\ key_force' = 0
  /\ f_total' = u'
  /\ ref_x' = ref_x
  /\ ref_theta' = ref_theta

\* C21: while the panel is editing, every KEYDOWN event is consumed by the
\* panel and the hotkeys R, Space, H, C, F and Escape do nothing to the
\* simulation (Escape only cancels the edit); a frame polled with the panel
\* still editing has keyboard force 0, mouse force 0 and leaves ref_x and
\* ref_theta alone.
C21_EditingConsumesKeys ==
  [][ /\ EditingKeyStep =>
           (evt'.consumed /\ ~evt'.raised /\ HotkeysIdle /\ EscapeCancels)
      /\ EditingFrameStep => EditingFrameGated ]_vars

\* The same for every key but Tab.
EditingConsumesKeysButTab ==
  [][ /\ (EditingKeyStep /\ evt'.ev.key # "K_TAB") =>
           (evt'.consumed /\ ~evt'.raised /\ HotkeysIdle /\ EscapeCancels)
      /\ EditingFrameStep => EditingFrameGated ]_vars

====
